---- MODULE Spec2Model ----
(***************************************************************************)
(* Document forensics engine (backend/image_hash_engine.py):               *)
(* ImageForensicsEngine with its SHA-256 archive, its pHash archive, the   *)
(* archive-based analysis and the pairwise comparison.                     *)
(***************************************************************************)
EXTENDS Integers, Sequences, FiniteSets, TLC

VARIABLES
    FITZ_SUPPORT,       \* module flag: PyMuPDF importable
    PDF2IMAGE_SUPPORT,  \* module flag: pdf2image importable
    sha256_archive,     \* self._sha256_archive: digest -> display name
    phash_archive,      \* self._phash_archive: insertion-ordered id -> (name, hash)
    lastCall,           \* the public operation called last and its arguments
    lastResult,         \* what that call returned or raised
    calls,              \* number of public operations performed so far
    rendered,           \* number of archive calls that validated and rendered
    submitted,          \* digest -> name at its latest submission that validated
    probe,              \* argument of a direct call of a pure helper
    probe_out,          \* result of that call
    threads             \* the calls of analyze_against_archive running concurrently

vars == <<FITZ_SUPPORT, PDF2IMAGE_SUPPORT, sha256_archive, phash_archive,
          lastCall, lastResult, calls, rendered, submitted, probe, probe_out, threads>>

engine_vars == <<FITZ_SUPPORT, PDF2IMAGE_SUPPORT, sha256_archive, phash_archive,
                 lastCall, lastResult, calls, rendered, submitted>>

-----------------------------------------------------------------------------
(* Bounds and program constants *)

MaxCalls == 3

HashBits == 64

MAX_FILE_SIZE == 52428800

threshold == 10

\* Python's None, and a present value
NONE == <<>>

Some(v) == <<v>>

-----------------------------------------------------------------------------
(* Input documents.  A file is a path (display name = basename), whether   *)
(* it exists and can be opened, and its bytes.  The bytes fix the size,    *)
(* the digest, what each decoder makes of them and the raster they show.   *)

Names == {"claim.pdf", "scan.png", "upload.dat"}

\* byte contents, by identity: the SHA-256 digest is injective on them
Contents == 1..11

SizeOf(c) ==
    CASE c = 1 -> 0
      [] c = 2 -> MAX_FILE_SIZE + 1
      [] c = 3 -> MAX_FILE_SIZE
      [] OTHER -> 2048

\* what the bytes are: a bitmap, a PDF both backends read, a PDF only the
\* fallback reads, a PDF with no page, or nothing a decoder understands
KindOf(c) ==
    CASE c \in {2, 3, 4, 5, 6} -> "bitmap"
      [] c = 7 -> "pdf"
      [] c = 8 -> "pdf_damaged"
      [] c = 9 -> "pdf_no_pages"
      [] c = 10 -> "pdf"
      [] OTHER -> "junk"

\* number of leading one-bits of the 64-bit pHash of the picture the bytes show
PictureOf(c) ==
    CASE c \in {2, 3} -> 0
      [] c = 4 -> 1
      [] c = 5 -> 9
      [] c = 6 -> 64
      [] c = 7 -> 12
      [] c = 8 -> 16
      [] c = 10 -> 12
      [] OTHER -> 0

File(n, s, c) == [name |-> n, status |-> s, content |-> c]

Files ==
    { File("claim.pdf", "missing", 1),
      File("scan.png", "ok", 1),
      File("scan.png", "ok", 2),
      File("claim.pdf", "unreadable", 7),
      File("scan.png", "ok", 3),
      File("upload.dat", "ok", 3),
      File("scan.png", "ok", 4),
      File("upload.dat", "ok", 5),
      File("scan.png", "ok", 6),
      File("claim.pdf", "ok", 7),
      File("scan.png", "ok", 7),
      File("claim.pdf", "ok", 8),
      File("claim.pdf", "ok", 9),
      File("claim.pdf", "ok", 10),
      File("upload.dat", "ok", 11) }

\* the files handed to the pairwise comparison
PairFiles ==
    { f \in Files : \/ f.status # "ok"
                    \/ f.content \in {3, 6, 8}
                    \/ (f.content = 7 /\ f.name = "claim.pdf") }

-----------------------------------------------------------------------------
(* What the operating system and the decoding libraries do with a file *)

\* os.path.splitext(file_path)[1].lower()
Ext(f) ==
    CASE f.name = "claim.pdf" -> ".pdf"
      [] f.name = "scan.png" -> ".png"
      [] OTHER -> ".dat"

SUPPORTED_IMAGE_EXTS == {".png", ".jpg", ".jpeg", ".bmp", ".tiff", ".tif", ".webp", ".gif"}

\* os.path.exists: an existing file we may not open still exists
Exists(f) == f.status # "missing"

\* open(file_path, "rb") succeeds
CanOpen(f) == f.status = "ok"

\* a decoded picture; the decoders hand back pixels and nothing else
Raster(c) == [picture |-> PictureOf(c)]

\* fitz.open(...) .. page.get_pixmap(...): "raster", "no_pages" or "error"
FitzOutcome(f) ==
    IF ~CanOpen(f) THEN "error"
    ELSE CASE KindOf(f.content) = "pdf" -> "raster"
           [] KindOf(f.content) = "pdf_no_pages" -> "no_pages"
           [] OTHER -> "error"

\* convert_from_path(..., first_page=1, last_page=1, strict=False)
Pdf2ImageOutcome(f) ==
    IF ~CanOpen(f) THEN "error"
    ELSE CASE KindOf(f.content) \in {"pdf", "pdf_damaged"} -> "raster"
           [] KindOf(f.content) = "pdf_no_pages" -> "no_pages"
           [] OTHER -> "error"

\* Image.open(file_path).convert("L")
PilOutcome(f) ==
    IF CanOpen(f) /\ KindOf(f.content) = "bitmap" THEN "raster" ELSE "error"

-----------------------------------------------------------------------------
(* Private helpers of ImageForensicsEngine *)

\* validate_file without the zero-size check
validate_file_no_empty_check(f) ==
    IF ~Exists(f) THEN [ok |-> FALSE, err |-> "File not found on disk"]
    ELSE IF SizeOf(f.content) > MAX_FILE_SIZE
         THEN [ok |-> FALSE, err |-> "File too large"]
    ELSE [ok |-> TRUE, err |-> ""]

validate_file(f) ==
    IF ~Exists(f) THEN [ok |-> FALSE, err |-> "File not found on disk"]
    ELSE IF SizeOf(f.content) = 0
         THEN [ok |-> FALSE, err |-> "Empty file (0 bytes) - rejected"]
    ELSE IF SizeOf(f.content) > MAX_FILE_SIZE
         THEN [ok |-> FALSE,
               err |-> "File too large ("
                       \o ToString((SizeOf(f.content) \div 1024) \div 1024)
                       \o " MB > 50 MB limit)"]
    ELSE [ok |-> TRUE, err |-> ""]

\* the hex digest; the caller has checked CanOpen, open() raises otherwise
file_sha256(f) == f.content

pdf_to_pil(f) ==
    IF FITZ_SUPPORT /\ FitzOutcome(f) = "raster" THEN Some(Raster(f.content))
    ELSE IF FITZ_SUPPORT /\ FitzOutcome(f) = "no_pages" THEN NONE
    ELSE IF PDF2IMAGE_SUPPORT /\ Pdf2ImageOutcome(f) = "raster"
         THEN Some(Raster(f.content))
    ELSE NONE

\* the backends _pdf_to_pil calls on the file, in the order of the calls
pdf_to_pil_tried(f) ==
    (IF FITZ_SUPPORT THEN <<"fitz">> ELSE <<>>)
       \o (IF /\ PDF2IMAGE_SUPPORT
               /\ ~(FITZ_SUPPORT /\ FitzOutcome(f) \in {"raster", "no_pages"})
            THEN <<"pdf2image">> ELSE <<>>)

load_as_pil(f) ==
    IF Ext(f) = ".pdf" THEN pdf_to_pil(f)
    ELSE IF Ext(f) \in SUPPORTED_IMAGE_EXTS
         THEN (IF PilOutcome(f) = "raster" THEN Some(Raster(f.content)) ELSE NONE)
    ELSE (IF PilOutcome(f) = "raster" THEN Some(Raster(f.content)) ELSE NONE)

\* img.resize((256, 256)); imagehash.phash(img): the set of one-bits of 64
generate_phash(img) == 1..img.picture

\* hamming counting only the bits set in the first hash and clear in the second
hamming_one_sided(h1, h2) == Cardinality(h1 \ h2)

\* abs(h1 - h2): the number of bit positions where the two hashes differ
hamming(h1, h2) == Cardinality((h1 \ h2) \cup (h2 \ h1))

\* risk_from_hamming with strict comparisons
risk_from_hamming_strict(distance) ==
    IF distance < 3
    THEN <<95, "Critical Similarity - Likely Duplicate (pHash)">>
    ELSE IF distance < 8
    THEN <<75, "High Similarity - Possible Edited Reuse (pHash)">>
    ELSE IF distance < 15
    THEN <<40, "Moderate Similarity - Inconclusive (pHash)">>
    ELSE <<5, "Unique Document (pHash)">>

risk_from_hamming(distance) ==
    IF distance <= 3
    THEN <<95, "Critical Similarity - Likely Duplicate (pHash)">>
    ELSE IF distance <= 8
    THEN <<75, "High Similarity - Possible Edited Reuse (pHash)">>
    ELSE IF distance <= 15
    THEN <<40, "Moderate Similarity - Inconclusive (pHash)">>
    ELSE <<5, "Unique Document (pHash)">>

\* round(((64 - distance) / 64) * 100, 2), in hundredths of a percent:
\* (64 - d) * 100 / 64 is a multiple of 1/400, rounded half to even
similarity_percent(distance) ==
    LET n == (HashBits - distance) * 10000
        q == n \div HashBits
        r == n % HashBits
    IN  IF 2 * r < HashBits THEN q
        ELSE IF 2 * r > HashBits THEN q + 1
        ELSE IF q % 2 = 0 THEN q ELSE q + 1

-----------------------------------------------------------------------------
(* The archives *)

\* self._sha256_archive[sha] = basename
sha256_upsert(archive, sha, basename) ==
    [d \in (DOMAIN archive) \cup {sha} |-> IF d = sha THEN basename ELSE archive[d]]

\* str(uuid.uuid4()): an id no entry of the archive has
new_archive_id(archive) == Len(archive) + 1

\* phash_insert keyed by display name: a same-named entry is overwritten
phash_insert_by_name(archive, archive_id, basename, new_hash) ==
    IF \E i \in 1..Len(archive) : archive[i].name = basename
    THEN [i \in 1..Len(archive) |->
            IF archive[i].name = basename
            THEN [id |-> archive[i].id, name |-> basename, hash |-> new_hash]
            ELSE archive[i]]
    ELSE Append(archive, [id |-> archive_id, name |-> basename, hash |-> new_hash])

\* phash_insert keyed by fingerprint: an entry of the same fingerprint is
\* renamed to the latest submitter instead of a new entry being added
phash_insert_by_hash(archive, archive_id, basename, new_hash) ==
    IF \E i \in 1..Len(archive) : archive[i].hash = new_hash
    THEN [i \in 1..Len(archive) |->
            IF archive[i].hash = new_hash
            THEN [id |-> archive[i].id, name |-> basename, hash |-> new_hash]
            ELSE archive[i]]
    ELSE Append(archive, [id |-> archive_id, name |-> basename, hash |-> new_hash])

\* self._phash_archive[archive_id] = (basename, new_hash); a dict keeps
\* its keys in insertion order
phash_insert(archive, archive_id, basename, new_hash) ==
    Append(archive, [id |-> archive_id, name |-> basename, hash |-> new_hash])

\* best_id = None; best_distance = 64 (best_name is unbound until a match)
no_match == [id |-> NONE, distance |-> HashBits, name |-> NONE]

\* for aid, (aname, ahash) in self._phash_archive.items(): ... if d < best_distance
RECURSIVE closest_phash(_, _, _, _)
closest_phash(archive, new_hash, i, best) ==
    IF i > Len(archive) THEN best
    ELSE LET d == hamming(new_hash, archive[i].hash)
         IN  closest_phash(archive, new_hash, i + 1,
                 IF d < best.distance
                 THEN [id |-> Some(archive[i].id), distance |-> d,
                       name |-> Some(archive[i].name)]
                 ELSE best)

-----------------------------------------------------------------------------
(* Findings and reports.  Percentages are in hundredths (10000 = 100.0);  *)
(* the dash of the labels is written as a hyphen.                          *)

sha_finding(matched_name) ==
    [matched_file |-> Some(matched_name),
     similarity_percent |-> 10000,
     fraud_risk_score |-> 95,
     classification |-> "Critical - Exact Byte Duplicate (SHA-256)",
     fraud_detected |-> TRUE,
     hamming_distance |-> Some(0)]

\* phash_match_finding deriving fraud_detected from the risk band
phash_match_finding_by_band(best) ==
    [matched_file |-> best.name,
     similarity_percent |-> similarity_percent(best.distance),
     fraud_risk_score |-> risk_from_hamming(best.distance)[1],
     classification |-> risk_from_hamming(best.distance)[2],
     fraud_detected |-> (risk_from_hamming(best.distance)[1] >= 75),
     hamming_distance |-> Some(best.distance)]

\* the finding built at lines 271-281 when best_id is not None
phash_match_finding(best) ==
    [matched_file |-> best.name,
     similarity_percent |-> similarity_percent(best.distance),
     fraud_risk_score |-> risk_from_hamming(best.distance)[1],
     classification |-> risk_from_hamming(best.distance)[2],
     fraud_detected |-> (best.distance <= threshold),
     hamming_distance |-> Some(best.distance)]

first_upload_finding ==
    [matched_file |-> NONE,
     similarity_percent |-> 0,
     fraud_risk_score |-> 5,
     classification |-> "First Upload - No Reference",
     fraud_detected |-> FALSE,
     hamming_distance |-> NONE]

\* phash_layer scanning after the insertion: the document meets itself
phash_layer_after_insert(archive, img) ==
    LET grown == Append(archive, [id |-> Len(archive) + 1, name |-> "self",
                                  hash |-> generate_phash(img)])
        best == closest_phash(grown, generate_phash(img), 1, no_match)
    IN  IF best.id # NONE THEN phash_match_finding(best) ELSE first_upload_finding

\* Layer 2 of analyze_against_archive, given the rendered image
phash_layer(archive, img) ==
    LET best == closest_phash(archive, generate_phash(img), 1, no_match)
    IN  IF best.id # NONE THEN phash_match_finding(best) ELSE first_upload_finding

\* render_method, set once an image was loaded
render_method_of ==
    IF FITZ_SUPPORT THEN "fitz" ELSE IF PDF2IMAGE_SUPPORT THEN "pdf2image" ELSE "pil"

validation_report(basename, err, archive_size) ==
    [uploaded_file |-> basename, matched_file |-> NONE,
     hamming_distance |-> NONE, similarity_percent |-> 0,
     fraud_risk_score |-> 0,
     classification |-> "Validation Failed - " \o err,
     fraud_detected |-> FALSE,
     archive_size |-> archive_size,
     method |-> "validation_error",
     layers |-> [sha256 |-> NONE, phash |-> NONE]]

failed_report(basename, archive_size) ==
    [uploaded_file |-> basename, matched_file |-> NONE,
     hamming_distance |-> NONE, similarity_percent |-> 0,
     fraud_risk_score |-> 10,
     classification |-> "Analysis Incomplete - Could Not Render Document",
     fraud_detected |-> FALSE,
     archive_size |-> archive_size,
     method |-> "failed",
     layers |-> [sha256 |-> NONE, phash |-> NONE]]

\* candidates = [r for r in [sha_result, phash_result] if r is not None]
candidates_of(sha_result, phash_result) == sha_result \o phash_result

\* max_by_risk keeping the last of the candidates of highest risk
max_by_risk_last(candidates) ==
    LET top == CHOOSE i \in 1..Len(candidates) :
                 /\ \A j \in 1..Len(candidates) :
                       candidates[j].fraud_risk_score <= candidates[i].fraud_risk_score
                 /\ \A j \in (i + 1)..Len(candidates) :
                       candidates[j].fraud_risk_score < candidates[i].fraud_risk_score
    IN  candidates[top]

\* max(candidates, key=lambda r: r["fraud_risk_score"]): the first of the
\* candidates no other candidate exceeds
max_by_risk(candidates) ==
    LET top == CHOOSE i \in 1..Len(candidates) :
                 /\ \A j \in 1..Len(candidates) :
                       candidates[j].fraud_risk_score <= candidates[i].fraud_risk_score
                 /\ \A j \in 1..(i - 1) :
                       candidates[j].fraud_risk_score < candidates[i].fraud_risk_score
    IN  candidates[top]

\* merged_report taking the fingerprint finding whenever there is one
merged_report_prefer_phash(basename, sha_result, phash_result, archive_size, method) ==
    LET best == IF phash_result # NONE THEN phash_result[1] ELSE sha_result[1]
    IN  [uploaded_file |-> basename,
         matched_file |-> best.matched_file,
         hamming_distance |-> best.hamming_distance,
         similarity_percent |-> best.similarity_percent,
         fraud_risk_score |-> best.fraud_risk_score,
         classification |-> best.classification,
         fraud_detected |-> best.fraud_detected,
         archive_size |-> archive_size,
         method |-> method,
         layers |-> [sha256 |-> sha_result, phash |-> phash_result]]

\* the dict returned at lines 311-325
merged_report(basename, sha_result, phash_result, archive_size, method) ==
    LET best == max_by_risk(candidates_of(sha_result, phash_result))
    IN  [uploaded_file |-> basename,
         matched_file |-> best.matched_file,
         hamming_distance |-> best.hamming_distance,
         similarity_percent |-> best.similarity_percent,
         fraud_risk_score |-> best.fraud_risk_score,
         classification |-> best.classification,
         fraud_detected |-> best.fraud_detected,
         archive_size |-> archive_size,
         method |-> method,
         layers |-> [sha256 |-> sha_result, phash |-> phash_result]]

Returned(v) == [outcome |-> "returned", value |-> v]

Raised(e) == [outcome |-> "raised", value |-> e]

-----------------------------------------------------------------------------
(* Public operations *)

\* analyze_against_archive that stops at a digest hit: the fingerprint
\* layer runs only when the digest lookup missed
analyze_against_archive_short_circuit(f) ==
    LET basename == f.name
        v == validate_file(f)
        sha == file_sha256(f)
        sha_result == IF sha \in DOMAIN sha256_archive
                      THEN Some(sha_finding(sha256_archive[sha]))
                      ELSE NONE
        img == IF sha_result # NONE THEN NONE ELSE load_as_pil(f)
        phash_result == IF img # NONE
                        THEN Some(phash_layer(phash_archive, img[1]))
                        ELSE NONE
        archive_after == IF img # NONE
                         THEN phash_insert(phash_archive,
                                           new_archive_id(phash_archive),
                                           basename, generate_phash(img[1]))
                         ELSE phash_archive
        render_method == IF img # NONE THEN render_method_of ELSE "sha256_only"
    IN  /\ calls < MaxCalls
        /\ calls' = calls + 1
        /\ lastCall' = [op |-> "analyze_against_archive", args |-> <<f>>]
        /\ submitted' = IF v.ok THEN sha256_upsert(submitted, f.content, basename)
                        ELSE submitted
        /\ IF ~v.ok
           THEN /\ lastResult' = Returned(validation_report(basename, v.err,
                                                            Len(phash_archive)))
                /\ UNCHANGED <<sha256_archive, phash_archive, rendered>>
           ELSE IF ~CanOpen(f)
           THEN /\ lastResult' = Raised("OSError")
                /\ UNCHANGED <<sha256_archive, phash_archive, rendered>>
           ELSE /\ sha256_archive' = sha256_upsert(sha256_archive, sha, basename)
                /\ phash_archive' = archive_after
                /\ rendered' = Len(archive_after)
                /\ lastResult' =
                     Returned(IF candidates_of(sha_result, phash_result) = <<>>
                              THEN failed_report(basename, Len(archive_after))
                              ELSE merged_report(basename, sha_result, phash_result,
                                                 Len(archive_after), render_method))
        /\ UNCHANGED <<FITZ_SUPPORT, PDF2IMAGE_SUPPORT, probe, probe_out, threads>>

\* ImageForensicsEngine.analyze_against_archive(file_path)
analyze_against_archive(f) ==
    LET basename == f.name
        v == validate_file(f)
        sha == file_sha256(f)
        sha_result == IF sha \in DOMAIN sha256_archive
                      THEN Some(sha_finding(sha256_archive[sha]))
                      ELSE NONE
        img == load_as_pil(f)
        phash_result == IF img # NONE
                        THEN Some(phash_layer(phash_archive, img[1]))
                        ELSE NONE
        archive_after == IF img # NONE
                         THEN phash_insert(phash_archive,
                                           new_archive_id(phash_archive),
                                           basename, generate_phash(img[1]))
                         ELSE phash_archive
        render_method == IF img # NONE THEN render_method_of ELSE "sha256_only"
    IN  /\ calls < MaxCalls
        /\ calls' = calls + 1
        /\ lastCall' = [op |-> "analyze_against_archive", args |-> <<f>>]
        /\ submitted' = IF v.ok THEN sha256_upsert(submitted, f.content, basename)
                        ELSE submitted
        /\ IF ~v.ok
           THEN /\ lastResult' = Returned(validation_report(basename, v.err,
                                                            Len(phash_archive)))
                /\ UNCHANGED <<sha256_archive, phash_archive, rendered>>
           ELSE IF ~CanOpen(f)
           THEN \* open(file_path, "rb") in _file_sha256 raises; nothing catches it
                /\ lastResult' = Raised("OSError")
                /\ UNCHANGED <<sha256_archive, phash_archive, rendered>>
           ELSE /\ sha256_archive' = sha256_upsert(sha256_archive, sha, basename)
                /\ phash_archive' = archive_after
                /\ rendered' = IF img # NONE THEN rendered + 1 ELSE rendered
                /\ lastResult' =
                     Returned(IF candidates_of(sha_result, phash_result) = <<>>
                              THEN failed_report(basename, Len(archive_after))
                              ELSE merged_report(basename, sha_result, phash_result,
                                                 Len(archive_after), render_method))
        /\ UNCHANGED <<FITZ_SUPPORT, PDF2IMAGE_SUPPORT, probe, probe_out, threads>>

\* the dict analyze_files returns for two rendered images
comparison_report(img1, img2) ==
    LET h1 == generate_phash(img1)
        h2 == generate_phash(img2)
        distance == hamming(h1, h2)
    IN  [hash_1 |-> h1, hash_2 |-> h2,
         hamming_distance |-> distance,
         similarity_percent |-> similarity_percent(distance),
         fraud_risk_score |-> risk_from_hamming(distance)[1],
         classification |-> risk_from_hamming(distance)[2],
         fraud_detected |-> (distance <= threshold)]

\* analyze_files that files both fingerprints in the archive
analyze_files_archiving(f1, f2) ==
    LET img1 == load_as_pil(f1)
        img2 == load_as_pil(f2)
    IN  /\ calls < MaxCalls
        /\ calls' = calls + 1
        /\ lastCall' = [op |-> "analyze_files", args |-> <<f1, f2>>]
        /\ lastResult' =
             IF img1 = NONE \/ img2 = NONE
             THEN Raised("RuntimeError: Could not render one or both files for comparison.")
             ELSE Returned(comparison_report(img1[1], img2[1]))
        /\ phash_archive' =
             IF img1 = NONE \/ img2 = NONE THEN phash_archive
             ELSE phash_insert(phash_archive, new_archive_id(phash_archive),
                               f1.name, generate_phash(img1[1]))
        /\ rendered' = Len(phash_archive')
        /\ UNCHANGED <<sha256_archive, submitted,
                       FITZ_SUPPORT, PDF2IMAGE_SUPPORT, probe, probe_out, threads>>

\* analyze_files that raises only when neither file renders and otherwise
\* compares what it has
analyze_files_degrading(f1, f2) ==
    LET img1 == load_as_pil(f1)
        img2 == load_as_pil(f2)
    IN  /\ calls < MaxCalls
        /\ calls' = calls + 1
        /\ lastCall' = [op |-> "analyze_files", args |-> <<f1, f2>>]
        /\ lastResult' =
             IF img1 = NONE /\ img2 = NONE
             THEN Raised("RuntimeError: Could not render one or both files for comparison.")
             ELSE IF img1 = NONE THEN Returned(comparison_report(img2[1], img2[1]))
             ELSE IF img2 = NONE THEN Returned(comparison_report(img1[1], img1[1]))
             ELSE Returned(comparison_report(img1[1], img2[1]))
        /\ UNCHANGED <<sha256_archive, phash_archive, rendered, submitted,
                       FITZ_SUPPORT, PDF2IMAGE_SUPPORT, probe, probe_out, threads>>

\* ImageForensicsEngine.analyze_files(file1_path, file2_path)
analyze_files(f1, f2) ==
    LET img1 == load_as_pil(f1)
        img2 == load_as_pil(f2)
    IN  /\ calls < MaxCalls
        /\ calls' = calls + 1
        /\ lastCall' = [op |-> "analyze_files", args |-> <<f1, f2>>]
        /\ lastResult' =
             IF img1 = NONE \/ img2 = NONE
             THEN Raised("RuntimeError: Could not render one or both files for comparison.")
             ELSE Returned(comparison_report(img1[1], img2[1]))
        /\ UNCHANGED <<sha256_archive, phash_archive, rendered, submitted,
                       FITZ_SUPPORT, PDF2IMAGE_SUPPORT, probe, probe_out, threads>>

\* a direct call of _risk_from_hamming(distance)
call_risk_from_hamming ==
    /\ probe # NONE
    /\ probe_out = NONE
    /\ probe_out' = Some(risk_from_hamming(probe[1]))
    /\ UNCHANGED <<engine_vars, probe, threads>>

\* direct calls of _hamming on two hashes, in both orders and on one twice
call_hamming ==
    /\ probe # NONE
    /\ probe_out = NONE
    /\ probe_out' = Some([ab |-> hamming(probe[1][1], probe[1][2]),
                          ba |-> hamming(probe[1][2], probe[1][1]),
                          aa |-> hamming(probe[1][1], probe[1][1])])
    /\ UNCHANGED <<engine_vars, probe, threads>>

\* the match finding of analyze_against_archive for a nearest entry at
\* distance probe[1][1] and at distance probe[1][2], and the result of
\* analyze_files for two images whose fingerprints have these sizes
call_findings ==
    /\ probe # NONE
    /\ probe_out = NONE
    /\ probe_out' =
         Some([near |-> phash_match_finding([id |-> Some(1), distance |-> probe[1][1],
                                             name |-> Some("scan.png")]),
               far |-> phash_match_finding([id |-> Some(1), distance |-> probe[1][2],
                                            name |-> Some("scan.png")]),
               pair |-> comparison_report([picture |-> probe[1][1]],
                                          [picture |-> probe[1][2]])])
    /\ UNCHANGED <<engine_vars, probe, threads>>

\* a direct call of _pdf_to_pil(file_path)
call_pdf_to_pil ==
    /\ probe # NONE
    /\ probe_out = NONE
    /\ probe_out' = Some([img |-> pdf_to_pil(probe[1]),
                          tried |-> pdf_to_pil_tried(probe[1])])
    /\ UNCHANGED <<engine_vars, probe, threads>>

-----------------------------------------------------------------------------
(* Specifications *)

\* ImageForensicsEngine.__init__, after the module's imports set the flags
InitEngine ==
    /\ FITZ_SUPPORT \in BOOLEAN
    /\ PDF2IMAGE_SUPPORT \in BOOLEAN
    /\ sha256_archive = <<>>
    /\ phash_archive = <<>>
    /\ lastCall = [op |-> "init", args |-> <<>>]
    /\ lastResult = [outcome |-> "none", value |-> NONE]
    /\ calls = 0
    /\ rendered = 0
    /\ submitted = <<>>

Init ==
    /\ InitEngine
    /\ probe = NONE
    /\ probe_out = NONE
    /\ threads = <<>>

Next ==
    \/ \E f \in Files : analyze_against_archive(f)
    \/ \E f1, f2 \in PairFiles : analyze_files(f1, f2)

Spec == Init /\ [][Next]_vars

\* the classifier called on every distance two 64-bit hashes can have
InitClassifier ==
    /\ InitEngine
    /\ probe \in {Some(d) : d \in 0..HashBits}
    /\ probe_out = NONE
    /\ threads = <<>>

NextClassifier == call_risk_from_hamming

SpecClassifier == InitClassifier /\ [][NextClassifier]_vars

\* 64-bit hashes to compare: the unions of four blocks of bit positions
HashBlocks == {{1}, {2, 3}, 4..10, 11..HashBits}

HashSamples == {UNION bs : bs \in SUBSET HashBlocks}

InitHamming ==
    /\ InitEngine
    /\ probe \in {Some(<<a, b>>) : a \in HashSamples, b \in HashSamples}
    /\ probe_out = NONE
    /\ threads = <<>>

NextHamming == call_hamming

SpecHamming == InitHamming /\ [][NextHamming]_vars

\* the findings of every pair of distances d1 <= d2 of 0..64
InitFindings ==
    /\ InitEngine
    /\ probe \in {Some(<<d1, d2>>) : d1 \in 0..HashBits, d2 \in 0..HashBits}
    /\ probe[1][1] <= probe[1][2]
    /\ probe_out = NONE
    /\ threads = <<>>

NextFindings == call_findings

SpecFindings == InitFindings /\ [][NextFindings]_vars

\* paths ending in .pdf: any content, present or not, readable or not
PdfFiles == {File("claim.pdf", s, c) : s \in {"ok", "unreadable", "missing"}, c \in Contents}

InitRenderer ==
    /\ InitEngine
    /\ probe \in {Some(f) : f \in PdfFiles}
    /\ probe_out = NONE
    /\ threads = <<>>

NextRenderer == call_pdf_to_pil

SpecRenderer == InitRenderer /\ [][NextRenderer]_vars

-----------------------------------------------------------------------------
(* analyze_against_archive called from several threads on one engine.  The *)
(* method takes no lock: each access to an archive dict is one step, and   *)
(* the threads' steps interleave freely.                                   *)

NumThreads == 2

Threads == 1..NumThreads

\* the files the concurrent callers submit
ConcurrentFiles ==
    { f \in Files : \/ f.content = 4
                    \/ (f.content = 7 /\ f.name = "scan.png" /\ f.status = "ok")
                    \/ f.content = 2 }

\* a thread that has not called yet
idle_thread ==
    [pc |-> "idle", file |-> NONE, sha_result |-> NONE, img |-> NONE,
     it_size |-> 0, it_next |-> 1, best |-> no_match, result |-> NONE]

\* thread t enters analyze_against_archive(f)
t_call(t, f) ==
    /\ threads[t].pc = "idle"
    /\ threads' = [threads EXCEPT ![t] = [@ EXCEPT !.pc = "validate", !.file = Some(f)]]
    /\ UNCHANGED <<engine_vars, probe, probe_out>>

\* ok, err = self._validate_file(file_path), and the return on failure
t_validate(t) ==
    /\ threads[t].pc = "validate"
    /\ LET f == threads[t].file[1]
           v == validate_file(f)
       IN  threads' = [threads EXCEPT ![t] =
              IF v.ok THEN [@ EXCEPT !.pc = "sha"]
              ELSE [@ EXCEPT !.pc = "done",
                             !.result = Some(Returned(validation_report(
                                            f.name, v.err, Len(phash_archive))))]]
    /\ UNCHANGED <<engine_vars, probe, probe_out>>

\* sha = self._file_sha256(file_path)
t_sha(t) ==
    /\ threads[t].pc = "sha"
    /\ threads' = [threads EXCEPT ![t] =
          IF CanOpen(@.file[1]) THEN [@ EXCEPT !.pc = "lookup"]
          ELSE [@ EXCEPT !.pc = "done", !.result = Some(Raised("OSError"))]]
    /\ UNCHANGED <<engine_vars, probe, probe_out>>

\* if sha in self._sha256_archive: sha_result = {...}
t_lookup(t) ==
    /\ threads[t].pc = "lookup"
    /\ LET sha == file_sha256(threads[t].file[1])
       IN  threads' = [threads EXCEPT ![t] =
              [@ EXCEPT !.pc = "upsert",
                        !.sha_result = IF sha \in DOMAIN sha256_archive
                                       THEN Some(sha_finding(sha256_archive[sha]))
                                       ELSE NONE]]
    /\ UNCHANGED <<engine_vars, probe, probe_out>>

\* self._sha256_archive[sha] = basename
t_upsert(t) ==
    /\ threads[t].pc = "upsert"
    /\ sha256_archive' = sha256_upsert(sha256_archive,
                                       file_sha256(threads[t].file[1]),
                                       threads[t].file[1].name)
    /\ threads' = [threads EXCEPT ![t] = [@ EXCEPT !.pc = "render"]]
    /\ UNCHANGED <<FITZ_SUPPORT, PDF2IMAGE_SUPPORT, phash_archive, lastCall,
                   lastResult, calls, rendered, submitted, probe, probe_out>>

\* img = self._load_as_pil(file_path); the loop's iterator is made over
\* the dict as it is now
t_render(t) ==
    /\ threads[t].pc = "render"
    /\ LET img == load_as_pil(threads[t].file[1])
       IN  threads' = [threads EXCEPT ![t] =
              IF img = NONE THEN [@ EXCEPT !.pc = "merge"]
              ELSE [@ EXCEPT !.pc = "scan", !.img = img,
                             !.it_size = Len(phash_archive), !.it_next = 1,
                             !.best = no_match]]
    /\ UNCHANGED <<engine_vars, probe, probe_out>>

\* one turn of "for aid, (aname, ahash) in self._phash_archive.items()":
\* the iterator raises when the dict changed size, ends after the last
\* item, and otherwise hands the next item to the loop body
t_scan(t) ==
    /\ threads[t].pc = "scan"
    /\ LET me == threads[t]
           new_hash == generate_phash(me.img[1])
       IN  threads' = [threads EXCEPT ![t] =
              IF Len(phash_archive) # me.it_size
              THEN [@ EXCEPT !.pc = "done",
                             !.result = Some(Raised(
                                "RuntimeError: dictionary changed size during iteration"))]
              ELSE IF me.it_next > Len(phash_archive)
              THEN [@ EXCEPT !.pc = "insert"]
              ELSE [@ EXCEPT !.it_next = @ + 1,
                             !.best = closest_phash(
                                         SubSeq(phash_archive, me.it_next, me.it_next),
                                         new_hash, 1, me.best)]]
    /\ UNCHANGED <<engine_vars, probe, probe_out>>

\* self._phash_archive[archive_id] = (basename, new_hash)
t_insert(t) ==
    /\ threads[t].pc = "insert"
    /\ phash_archive' = phash_insert(phash_archive, new_archive_id(phash_archive),
                                     threads[t].file[1].name,
                                     generate_phash(threads[t].img[1]))
    /\ threads' = [threads EXCEPT ![t] = [@ EXCEPT !.pc = "merge"]]
    /\ UNCHANGED <<FITZ_SUPPORT, PDF2IMAGE_SUPPORT, sha256_archive, lastCall,
                   lastResult, calls, rendered, submitted, probe, probe_out>>

\* the finding of Layer 2, the merge and the return; archive_size is
\* len(self._phash_archive) as it is now
t_merge(t) ==
    /\ threads[t].pc = "merge"
    /\ LET me == threads[t]
           basename == me.file[1].name
           phash_result ==
              IF me.img = NONE THEN NONE
              ELSE IF me.best.id # NONE THEN Some(phash_match_finding(me.best))
              ELSE Some(first_upload_finding)
           render_method == IF me.img # NONE THEN render_method_of ELSE "sha256_only"
       IN  threads' = [threads EXCEPT ![t] =
              [@ EXCEPT !.pc = "done",
                        !.result = Some(Returned(
                           IF candidates_of(me.sha_result, phash_result) = <<>>
                           THEN failed_report(basename, Len(phash_archive))
                           ELSE merged_report(basename, me.sha_result, phash_result,
                                              Len(phash_archive), render_method)))]]
    /\ UNCHANGED <<engine_vars, probe, probe_out>>

InitConcurrent ==
    /\ InitEngine
    /\ probe = NONE
    /\ probe_out = NONE
    /\ threads = [t \in Threads |-> idle_thread]

NextConcurrent ==
    \E t \in Threads :
       \/ \E f \in ConcurrentFiles : t_call(t, f)
       \/ t_validate(t)
       \/ t_sha(t)
       \/ t_lookup(t)
       \/ t_upsert(t)
       \/ t_render(t)
       \/ t_scan(t)
       \/ t_insert(t)
       \/ t_merge(t)

SpecConcurrent == InitConcurrent /\ [][NextConcurrent]_vars

-----------------------------------------------------------------------------
(* Properties *)

ArchiveOp == "analyze_against_archive"

PairOp == "analyze_files"

\* this step is a call analyze_against_archive(f)
ArchiveCallStep(f) ==
    /\ calls' = calls + 1
    /\ lastCall' = [op |-> ArchiveOp, args |-> <<f>>]

\* this step is a call analyze_files(f1, f2)
PairCallStep(f1, f2) ==
    /\ calls' = calls + 1
    /\ lastCall' = [op |-> PairOp, args |-> <<f1, f2>>]

\* the file is missing, has no bytes, or is larger than 50 MiB
FailsValidation(f) ==
    \/ f.status = "missing"
    \/ SizeOf(f.content) = 0
    \/ SizeOf(f.content) > 50 * 1024 * 1024

\* the last call was analyze_against_archive and it returned a report
ArchiveReturned ==
    /\ lastCall.op = ArchiveOp
    /\ lastResult.outcome = "returned"

\* C1: a call of analyze_against_archive on a file that fails validation
\* (missing, zero bytes, over 50 MiB) returns a report with risk 0,
\* fraud_detected false and method validation_error, with both per-layer
\* sub-results null and archive_size the size before the call, and leaves
\* the digest archive and the fingerprint archive as they were.
C1_ValidationFailureIsTerminal ==
    [][\A f \in Files :
         (ArchiveCallStep(f) /\ FailsValidation(f)) =>
            /\ lastResult'.outcome = "returned"
            /\ lastResult'.value.fraud_risk_score = 0
            /\ lastResult'.value.fraud_detected = FALSE
            /\ lastResult'.value.method = "validation_error"
            /\ lastResult'.value.layers = [sha256 |-> NONE, phash |-> NONE]
            /\ lastResult'.value.archive_size = Len(phash_archive)
            /\ sha256_archive' = sha256_archive
            /\ phash_archive' = phash_archive]_vars

\* an oversized file was rejected by an engine whose archives hold entries
C1_Witness ==
    /\ ArchiveReturned
    /\ FailsValidation(lastCall.args[1])
    /\ SizeOf(lastCall.args[1].content) > 50 * 1024 * 1024
    /\ lastResult.value.method = "validation_error"
    /\ Len(phash_archive) > 0
    /\ DOMAIN sha256_archive # {}

\* C4: when a validated document renders and the fingerprint archive is
\* empty right before its insertion, the fingerprint-layer finding is
\* "First Upload - No Reference": risk 5, fraud_detected false,
\* matched_file null, hamming_distance null.
C4_FirstUploadOnEmptyArchive ==
    [][\A f \in Files :
         (ArchiveCallStep(f) /\ phash_archive = <<>> /\ phash_archive' # <<>>) =>
            /\ lastResult'.outcome = "returned"
            /\ lastResult'.value.layers.phash # NONE
            /\ LET finding == lastResult'.value.layers.phash[1]
               IN  /\ finding.classification = "First Upload - No Reference"
                   /\ finding.fraud_risk_score = 5
                   /\ finding.fraud_detected = FALSE
                   /\ finding.matched_file = NONE
                   /\ finding.hamming_distance = NONE]_vars

\* the first rendered document of an engine got the first-upload finding,
\* after an earlier submission that did not render
C4_Witness ==
    /\ ArchiveReturned
    /\ Len(phash_archive) = 1
    /\ calls = 2
    /\ lastResult.value.layers.phash # NONE
    /\ lastResult.value.layers.phash[1].classification = "First Upload - No Reference"

\* C5: the fingerprint archive holds one entry per call of
\* analyze_against_archive that validated and rendered, duplicates and
\* digest hits included, and a returned report's archive_size is that number.
C5_ArchiveSizeCountsRenderedCalls ==
    /\ Len(phash_archive) = rendered
    /\ ArchiveReturned => lastResult.value.archive_size = rendered

\* three rendered submissions, the last one a digest hit flagged as fraud
C5_Witness ==
    /\ ArchiveReturned
    /\ rendered = 3
    /\ lastResult.value.archive_size = 3
    /\ lastResult.value.layers.sha256 # NONE
    /\ lastResult.value.fraud_detected

\* the risk table of the classifier, by closed ranges
RiskTable(d) ==
    CASE d \in 0..3 -> 95
      [] d \in 4..8 -> 75
      [] d \in 9..15 -> 40
      [] d \in 16..64 -> 5

\* C6: the classifier maps every distance 0..64 to the risk of its range:
\* 95 for 0..3, 75 for 4..8, 40 for 9..15, 5 for 16..64; the boundary
\* values 3, 4, 8, 9, 15, 16 give 95, 75, 75, 40, 40, 5.
C6_ClassifierTable ==
    probe_out # NONE =>
       /\ probe[1] \in 0..64
       /\ probe_out[1][1] = RiskTable(probe[1])
       /\ probe[1] = 3 => probe_out[1][1] = 95
       /\ probe[1] = 4 => probe_out[1][1] = 75
       /\ probe[1] = 8 => probe_out[1][1] = 75
       /\ probe[1] = 9 => probe_out[1][1] = 40
       /\ probe[1] = 15 => probe_out[1][1] = 40
       /\ probe[1] = 16 => probe_out[1][1] = 5

\* the classifier was called on the boundary value 8
C6_Witness ==
    /\ probe = Some(8)
    /\ probe_out # NONE
    /\ probe_out[1][1] = 75

\* the six fields a merged report takes from a finding
MergedFields(r) ==
    [matched_file |-> r.matched_file,
     hamming_distance |-> r.hamming_distance,
     similarity_percent |-> r.similarity_percent,
     fraud_risk_score |-> r.fraud_risk_score,
     classification |-> r.classification,
     fraud_detected |-> r.fraud_detected]

\* C7: with both findings present the merged report takes its six fields
\* from the finding of strictly higher risk, and from the digest finding
\* when the risks are equal; with one finding present, from that one.
C7_MergePrefersHigherRiskThenDigest ==
    ArchiveReturned =>
       LET sha == lastResult.value.layers.sha256
           ph == lastResult.value.layers.phash
           top == MergedFields(lastResult.value)
       IN  /\ (sha # NONE /\ ph # NONE) =>
                 /\ sha[1].fraud_risk_score > ph[1].fraud_risk_score => top = sha[1]
                 /\ ph[1].fraud_risk_score > sha[1].fraud_risk_score => top = ph[1]
                 /\ sha[1].fraud_risk_score = ph[1].fraud_risk_score => top = sha[1]
           /\ (sha # NONE /\ ph = NONE) => top = sha[1]
           /\ (sha = NONE /\ ph # NONE) => top = ph[1]

\* a digest hit and a fingerprint finding of the same risk, which differ
C7_Witness ==
    /\ ArchiveReturned
    /\ lastResult.value.layers.sha256 # NONE
    /\ lastResult.value.layers.phash # NONE
    /\ lastResult.value.layers.phash[1].fraud_risk_score = 95
    /\ lastResult.value.layers.phash[1] # lastResult.value.layers.sha256[1]
    /\ MergedFields(lastResult.value) = lastResult.value.layers.sha256[1]

\* the last call was analyze_files
PairCalled == lastCall.op = PairOp

RenderError == Raised("RuntimeError: Could not render one or both files for comparison.")

\* C8: a call of analyze_files, returning or raising, leaves the digest
\* archive and the fingerprint archive unchanged, and what it yields is
\* fixed by its two files alone, whatever the archives hold.
C8_PairwiseLeavesArchivesAlone ==
    [][\A f1, f2 \in PairFiles :
         PairCallStep(f1, f2) =>
            /\ sha256_archive' = sha256_archive
            /\ phash_archive' = phash_archive
            /\ lastResult' \in
                 {RenderError,
                  Returned(comparison_report(Raster(f1.content), Raster(f2.content)))}]_vars

\* a comparison of two different pictures returned on an engine whose
\* archives hold two fingerprints and a digest
C8_Witness ==
    /\ PairCalled
    /\ Len(phash_archive) = 2
    /\ DOMAIN sha256_archive # {}
    /\ lastResult.outcome = "returned"
    /\ lastResult.value.hamming_distance > 0

\* the absolute difference
AbsDiff(a, b) == IF a >= b THEN a - b ELSE b - a

\* C9: analyze_files raises the rendering error exactly when one of its
\* two files does not render; when both render it returns the Hamming
\* distance of the two fingerprints with the similarity and the
\* classification of that distance, all fields present.
C9_PairwiseRaisesIffUnrenderable ==
    PairCalled =>
       LET f1 == lastCall.args[1]
           f2 == lastCall.args[2]
           unrenderable == load_as_pil(f1) = NONE \/ load_as_pil(f2) = NONE
           r == lastResult.value
           d == AbsDiff(PictureOf(f1.content), PictureOf(f2.content))
       IN  /\ unrenderable <=> lastResult = RenderError
           /\ ~unrenderable =>
                /\ lastResult.outcome = "returned"
                /\ DOMAIN r = {"hash_1", "hash_2", "hamming_distance",
                               "similarity_percent", "fraud_risk_score",
                               "classification", "fraud_detected"}
                /\ r.hamming_distance = d
                /\ AbsDiff(r.similarity_percent * 64, (64 - d) * 10000) <= 32
                /\ r.fraud_risk_score = RiskTable(d)
                /\ r.classification =
                     (CASE d \in 0..3 -> "Critical Similarity - Likely Duplicate (pHash)"
                        [] d \in 4..8 -> "High Similarity - Possible Edited Reuse (pHash)"
                        [] d \in 9..15 -> "Moderate Similarity - Inconclusive (pHash)"
                        [] d \in 16..64 -> "Unique Document (pHash)")

\* a comparison of a file that renders with one that does not raised
C9_Witness ==
    /\ PairCalled
    /\ lastResult = RenderError
    /\ load_as_pil(lastCall.args[1]) # NONE
    /\ load_as_pil(lastCall.args[2]) = NONE

\* C10: every call of analyze_against_archive, on any file and in any
\* engine state, returns a report; no exception escapes it.
C10_ArchiveCallAlwaysReturns ==
    lastCall.op = ArchiveOp => lastResult.outcome = "returned"

\* C2: when a file that passes validation is submitted and its bytes
\* were submitted before by a call that passed validation, the call
\* returns fraud_detected true and risk 95, from a digest match or from a
\* fingerprint match at distance 0.
C2_ResubmissionIsFlagged ==
    [][\A f \in Files :
         (/\ ArchiveCallStep(f)
          /\ ~FailsValidation(f)
          /\ f.content \in DOMAIN submitted) =>
            /\ lastResult'.outcome = "returned"
            /\ lastResult'.value.fraud_detected = TRUE
            /\ lastResult'.value.fraud_risk_score = 95
            /\ \/ lastResult'.value.layers.sha256 # NONE
               \/ lastResult'.value.hamming_distance = Some(0)]_vars

\* C3: when bytes last submitted under name A are submitted under another
\* name B, the digest-layer finding of the call is a match (risk 95,
\* hamming_distance 0, similarity 100, fraud_detected true) whose
\* matched_file is A.
C3_DigestMatchNamesEarlierSubmitter ==
    [][\A f \in Files :
         (/\ ArchiveCallStep(f)
          /\ f.content \in DOMAIN submitted
          /\ submitted[f.content] # f.name) =>
            /\ lastResult'.outcome = "returned"
            /\ lastResult'.value.layers.sha256 # NONE
            /\ LET finding == lastResult'.value.layers.sha256[1]
               IN  /\ finding.matched_file = Some(submitted[f.content])
                   /\ finding.matched_file # Some(f.name)
                   /\ finding.fraud_risk_score = 95
                   /\ finding.hamming_distance = Some(0)
                   /\ finding.similarity_percent = 10000
                   /\ finding.fraud_detected = TRUE]_vars

\* thread t has returned a report that saw nothing: no digest match and
\* a first-upload fingerprint finding
SawNothing(t) ==
    /\ threads[t].pc = "done"
    /\ threads[t].result[1].outcome = "returned"
    /\ threads[t].result[1].value.layers.sha256 = NONE
    /\ threads[t].result[1].value.layers.phash # NONE
    /\ threads[t].result[1].value.layers.phash[1].classification
          = "First Upload - No Reference"

\* C11: when two calls of analyze_against_archive run concurrently on one
\* engine with the same new, renderable document, at least one of them
\* observes the other's entry: never do both get no digest match and both
\* a first-upload fingerprint finding.
C11_ConcurrentSameDocumentIsSeen ==
    \A t1, t2 \in Threads :
       (/\ t1 # t2
        /\ threads[t1].file # NONE
        /\ threads[t1].file = threads[t2].file) =>
          ~(SawNothing(t1) /\ SawNothing(t2))

\* C12: the Hamming distance of two 64-bit hashes is the number of bit
\* positions where they differ: the same in both orders, 0 for a hash and
\* itself, and always within 0..64.
C12_HammingSymmetricZeroBounded ==
    probe_out # NONE =>
       LET a == probe[1][1]
           b == probe[1][2]
       IN  /\ probe_out[1].ab = probe_out[1].ba
           /\ probe_out[1].aa = 0
           /\ probe_out[1].ab \in 0..64
           /\ probe_out[1].ab = Cardinality({i \in 1..64 : (i \in a) # (i \in b)})

\* two hashes that differ in nine positions, neither containing the other
C12_Witness ==
    /\ probe_out # NONE
    /\ probe_out[1].ab = 9
    /\ probe[1][1] \ probe[1][2] # {}
    /\ probe[1][2] \ probe[1][1] # {}

\* C13: when a validated document cannot be rendered and its digest is
\* not yet in the digest archive, the call returns the degraded finding:
\* risk 10, "Analysis Incomplete - Could Not Render Document",
\* fraud_detected false, matched_file null, method flagged digest-only.
C13_UnrenderableNewDocumentIsDegraded ==
    [][\A f \in Files :
         (/\ ArchiveCallStep(f)
          /\ ~FailsValidation(f)
          /\ load_as_pil(f) = NONE
          /\ f.content \notin DOMAIN sha256_archive) =>
            /\ lastResult'.outcome = "returned"
            /\ lastResult'.value.fraud_risk_score = 10
            /\ lastResult'.value.classification
                  = "Analysis Incomplete - Could Not Render Document"
            /\ lastResult'.value.fraud_detected = FALSE
            /\ lastResult'.value.matched_file = NONE
            /\ lastResult'.value.method = "sha256_only"]_vars

\* C14: the fingerprint archive is append-only over every sequence of
\* public operations: its size never decreases, and an entry (internal id,
\* display name, fingerprint) once inserted is never removed or changed,
\* also when a later document has the same display name or fingerprint.
C14_FingerprintArchiveIsAppendOnly ==
    [][/\ Len(phash_archive') >= Len(phash_archive)
       /\ \A i \in 1..Len(phash_archive) : phash_archive'[i] = phash_archive[i]
       /\ \A i, j \in 1..Len(phash_archive') :
             phash_archive'[i].id = phash_archive'[j].id => i = j]_vars

\* three entries are kept: the second has the display name of the first
\* and another fingerprint, the third has the fingerprint of the first
C14_Witness ==
    /\ Len(phash_archive) = 3
    /\ phash_archive[2].name = phash_archive[1].name
    /\ phash_archive[2].hash # phash_archive[1].hash
    /\ phash_archive[3].hash = phash_archive[1].hash
    /\ phash_archive[3].id # phash_archive[1].id

\* C15: in every analyze_against_archive call the new fingerprint is
\* inserted only after the nearest-neighbour scan of that call, so the entry
\* reported as the match was inserted by an earlier call (it is in the
\* archive before this call) and is never the entry of the document itself.
C15_MatchIsAnEarlierEntry ==
    [][\A f \in Files :
         (/\ ArchiveCallStep(f)
          /\ lastResult'.outcome = "returned"
          /\ lastResult'.value.layers.phash # NONE) =>
            LET finding == lastResult'.value.layers.phash[1]
                own == phash_archive'[Len(phash_archive')]
            IN  /\ Len(phash_archive') = Len(phash_archive) + 1
                /\ own.name = f.name
                /\ \A i \in 1..Len(phash_archive) : phash_archive[i].id # own.id
                /\ finding.matched_file # NONE =>
                      \E i \in 1..Len(phash_archive) :
                         /\ phash_archive[i].name = finding.matched_file[1]
                         /\ finding.hamming_distance
                               = Some(Cardinality(
                                    (phash_archive[i].hash \ own.hash)
                                       \cup (own.hash \ phash_archive[i].hash)))]_vars

\* a document was matched, at a distance above 0, to the one entry an
\* earlier call had inserted under another display name
C15_Witness ==
    /\ ArchiveReturned
    /\ Len(phash_archive) = 2
    /\ lastResult.value.layers.phash # NONE
    /\ lastResult.value.layers.phash[1].matched_file = Some(phash_archive[1].name)
    /\ phash_archive[1].name # phash_archive[2].name
    /\ lastResult.value.layers.phash[1].hamming_distance # NONE
    /\ lastResult.value.layers.phash[1].hamming_distance[1] > 0

\* C16: after every analyze_against_archive call whose document passes
\* validation, the digest archive maps the document's digest to the display
\* name of this call, on a hit or a miss, rendered or not; the other digests
\* keep their names, and a digest hit reports the name of the previous
\* validated submission of the same bytes.
C16_DigestArchiveHoldsLatestSubmitter ==
    [][\A f \in Files :
         (ArchiveCallStep(f) /\ ~FailsValidation(f)) =>
            /\ DOMAIN sha256_archive' = DOMAIN sha256_archive \cup {f.content}
            /\ sha256_archive'[f.content] = f.name
            /\ \A d \in DOMAIN sha256_archive \ {f.content} :
                  sha256_archive'[d] = sha256_archive[d]
            /\ f.content \in DOMAIN sha256_archive =>
                  /\ lastResult'.outcome = "returned"
                  /\ lastResult'.value.layers.sha256 # NONE
                  /\ lastResult'.value.layers.sha256[1].matched_file
                        = Some(sha256_archive[f.content])]_vars

\* C17: when a validated document renders and the fingerprint archive is
\* non-empty before its insertion, the fingerprint-layer finding is a
\* nearest-neighbour result and not "First Upload": its hamming_distance is
\* the minimum Hamming distance to the entries present before the insertion,
\* for every minimum in 0..64, and its matched_file names an entry at that
\* distance.
C17_NonEmptyArchiveGivesNearestNeighbour ==
    [][\A f \in Files :
         (/\ ArchiveCallStep(f)
          /\ phash_archive # <<>>
          /\ Len(phash_archive') = Len(phash_archive) + 1) =>
            LET finding == lastResult'.value.layers.phash[1]
                own == phash_archive'[Len(phash_archive')].hash
                dist(i) == Cardinality((phash_archive[i].hash \ own)
                                          \cup (own \ phash_archive[i].hash))
            IN  /\ finding.classification # "First Upload - No Reference"
                /\ finding.hamming_distance # NONE
                /\ \A i \in 1..Len(phash_archive) : finding.hamming_distance[1] <= dist(i)
                /\ \E i \in 1..Len(phash_archive) :
                      /\ finding.hamming_distance[1] = dist(i)
                      /\ finding.matched_file = Some(phash_archive[i].name)]_vars

\* the file would be decoded to a raster by the backends installed
Renderable(f) ==
    /\ f.status = "ok"
    /\ \/ f.name # "claim.pdf" /\ KindOf(f.content) = "bitmap"
       \/ /\ f.name = "claim.pdf"
          /\ \/ FITZ_SUPPORT /\ KindOf(f.content) = "pdf"
             \/ PDF2IMAGE_SUPPORT /\ KindOf(f.content) \in {"pdf", "pdf_damaged"}

\* C18: the digest layer and the fingerprint layer both run on every
\* validated, renderable document and neither short-circuits the other: the
\* digest is looked up and filed, the fingerprint is scanned and inserted,
\* and on a digest hit the report carries both per-layer sub-results.
C18_BothLayersRun ==
    [][\A f \in Files :
         (ArchiveCallStep(f) /\ ~FailsValidation(f) /\ Renderable(f)) =>
            /\ lastResult'.outcome = "returned"
            /\ f.content \in DOMAIN sha256_archive'
            /\ Len(phash_archive') = Len(phash_archive) + 1
            /\ lastResult'.value.layers.phash # NONE
            /\ lastResult'.value.archive_size = Len(phash_archive) + 1
            /\ (lastResult'.value.layers.sha256 # NONE)
                  <=> (f.content \in DOMAIN sha256_archive)
            /\ (\E i \in 1..Len(phash_archive) :
                   phash_archive[i].hash = 1..PictureOf(f.content)) =>
                  lastResult'.value.layers.phash[1].hamming_distance = Some(0)]_vars

\* a resubmitted document: the digest lookup hit, and the fingerprint layer
\* still matched the earlier entry and inserted a second one
C18_Witness ==
    /\ ArchiveReturned
    /\ Len(phash_archive) = 2
    /\ lastResult.value.layers.sha256 # NONE
    /\ lastResult.value.layers.phash # NONE
    /\ lastResult.value.layers.phash[1].hamming_distance = Some(0)
    /\ phash_archive[1].hash = phash_archive[2].hash

\* C19: in every nearest-neighbour fingerprint finding and in every
\* analyze_files result, fraud_detected is true exactly when the reported
\* hamming_distance is at most the threshold (10), whatever the risk band;
\* similarity_percent is (64 - distance) / 64 * 100 rounded to two decimals
\* (here in hundredths), lies in 0..100 and does not increase with the
\* distance.
C19_FraudFlagAndSimilarity ==
    probe_out # NONE =>
        LET d1 == probe[1][1]
            d2 == probe[1][2]
            near == probe_out[1].near
            far == probe_out[1].far
            pair == probe_out[1].pair
            Rounded(sim, d) ==
                /\ sim \in 0..10000
                /\ AbsDiff(sim * 64, (64 - d) * 10000) <= 32
        IN  /\ near.hamming_distance = Some(d1)
            /\ far.hamming_distance = Some(d2)
            /\ pair.hamming_distance = d2 - d1
            /\ near.fraud_detected <=> d1 <= 10
            /\ far.fraud_detected <=> d2 <= 10
            /\ pair.fraud_detected <=> d2 - d1 <= 10
            /\ Rounded(near.similarity_percent, d1)
            /\ Rounded(far.similarity_percent, d2)
            /\ Rounded(pair.similarity_percent, d2 - d1)
            /\ near.similarity_percent >= far.similarity_percent
            /\ pair.similarity_percent >= far.similarity_percent

\* distances 9 and 10 are both fraud although they fall in the risk band
\* of score 40, and the pair at distance 1 has similarity 98.44
C19_Witness ==
    /\ probe = Some(<<9, 10>>)
    /\ probe_out # NONE
    /\ probe_out[1].near.fraud_detected
    /\ probe_out[1].far.fraud_detected
    /\ probe_out[1].far.fraud_risk_score = 40
    /\ probe_out[1].pair.similarity_percent = 9844
    /\ probe_out[1].far.similarity_percent = 8438

\* the backend is among those the renderer called
Tried(backend) == \E i \in 1..Len(probe_out[1].tried) : probe_out[1].tried[i] = backend

\* C20: for a paginated document the renderer tries the primary backend
\* first and, whenever the primary is unavailable or does not produce a
\* raster, tries the secondary backend if it is available; it yields "no
\* raster" only when each backend was unavailable or was attempted and
\* failed, and it returns the first raster produced without trying later
\* backends.
C20_RendererFallsBackInOrder ==
    probe_out # NONE =>
        LET f == probe[1]
            img == probe_out[1].img
            tried == probe_out[1].tried
        IN  /\ FITZ_SUPPORT => (tried # <<>> /\ tried[1] = "fitz")
            /\ ~FITZ_SUPPORT => ~Tried("fitz")
            /\ (PDF2IMAGE_SUPPORT /\ (~FITZ_SUPPORT \/ FitzOutcome(f) # "raster"))
                  => Tried("pdf2image")
            /\ img = NONE =>
                  /\ ~FITZ_SUPPORT \/ (Tried("fitz") /\ FitzOutcome(f) # "raster")
                  /\ ~PDF2IMAGE_SUPPORT
                        \/ (Tried("pdf2image") /\ Pdf2ImageOutcome(f) # "raster")
            /\ (FITZ_SUPPORT /\ FitzOutcome(f) = "raster")
                  => (tried = <<"fitz">> /\ img = Some([picture |-> PictureOf(f.content)]))
            /\ (Tried("pdf2image") /\ Pdf2ImageOutcome(f) = "raster")
                  => img = Some([picture |-> PictureOf(f.content)])

\* C21: when a validated document cannot be rendered but its digest is
\* already in the digest archive, the call degrades to digest-only: the
\* report is the digest-layer finding (risk 95, fraud_detected true,
\* matched_file the archived name) with method digest-only and a null
\* fingerprint sub-result; the fingerprint archive is unchanged and the
\* digest archive is still upserted.
C21_UnrenderableKnownDocumentIsDigestOnly ==
    [][\A f \in Files :
         (/\ ArchiveCallStep(f)
          /\ ~FailsValidation(f)
          /\ ~Renderable(f)
          /\ f.content \in DOMAIN sha256_archive) =>
            /\ lastResult'.outcome = "returned"
            /\ lastResult'.value.fraud_risk_score = 95
            /\ lastResult'.value.fraud_detected = TRUE
            /\ lastResult'.value.matched_file = Some(sha256_archive[f.content])
            /\ lastResult'.value.method = "sha256_only"
            /\ lastResult'.value.layers.sha256 # NONE
            /\ lastResult'.value.layers.phash = NONE
            /\ phash_archive' = phash_archive
            /\ sha256_archive'[f.content] = f.name]_vars

\* the backend that decodes the file to a raster, "none" when none does
Producer(f) ==
    IF f.status # "ok" THEN "none"
    ELSE IF f.name = "claim.pdf"
    THEN (IF FITZ_SUPPORT /\ KindOf(f.content) = "pdf" THEN "fitz"
          ELSE IF FITZ_SUPPORT /\ KindOf(f.content) = "pdf_no_pages" THEN "none"
          ELSE IF PDF2IMAGE_SUPPORT /\ KindOf(f.content) \in {"pdf", "pdf_damaged"}
               THEN "pdf2image"
          ELSE "none")
    ELSE (IF KindOf(f.content) = "bitmap" THEN "pil" ELSE "none")

\* C22: the method field of a report names how the result was produced in
\* that call: validation_error exactly when validation failed, the primary
\* renderer (fitz) only when it produced the raster, the fallback renderer
\* (pdf2image) only when it produced the raster, raster-only (pil) only when
\* a bitmap was decoded directly, digest-only or failed only when no raster
\* was produced.
C22_MethodNamesTheProducer ==
    [][\A f \in Files :
         (ArchiveCallStep(f) /\ lastResult'.outcome = "returned") =>
            LET method == lastResult'.value.method
            IN  /\ method = "validation_error" <=> FailsValidation(f)
                /\ method = "fitz" => Producer(f) = "fitz"
                /\ method = "pdf2image" => Producer(f) = "pdf2image"
                /\ method = "pil" => Producer(f) = "pil"
                /\ method \in {"sha256_only", "failed"} => Producer(f) = "none"]_vars

\* the number of bits in which two fingerprints differ
BitDistance(h1, h2) == Cardinality({b \in 1..64 : (b \in h1) # (b \in h2)})

\* C23: when several entries of the fingerprint archive are at the same
\* minimum Hamming distance from the new fingerprint, the scan selects the
\* earliest-inserted of them: matched_file is that entry's display name.
C23_TieGoesToEarliestEntry ==
    [][\A f \in Files :
         (/\ ArchiveCallStep(f)
          /\ Len(phash_archive') = Len(phash_archive) + 1) =>
            LET own == phash_archive'[Len(phash_archive')].hash
                dist(i) == BitDistance(own, phash_archive[i].hash)
                nearest == {i \in 1..Len(phash_archive) :
                              \A j \in 1..Len(phash_archive) : dist(i) <= dist(j)}
                earliest == CHOOSE i \in nearest : \A j \in nearest : i <= j
            IN  Cardinality(nearest) >= 2 =>
                  /\ lastResult'.value.layers.phash # NONE
                  /\ lastResult'.value.layers.phash[1].matched_file
                        = Some(phash_archive[earliest].name)
                  /\ lastResult'.value.layers.phash[1].hamming_distance
                        = Some(dist(earliest))]_vars

\* C24: when several analyze_against_archive calls run concurrently on one
\* engine, no call fails because another call inserts into the fingerprint
\* archive while it scans it: every call completes with a report, and once
\* N validated, renderable submissions have completed the fingerprint
\* archive holds exactly N entries.
C24_ConcurrentScansAndInsertsAreSafe ==
    /\ \A t \in Threads :
          threads[t].pc = "done" => threads[t].result[1].outcome = "returned"
    /\ (\A t \in Threads : threads[t].pc = "done") =>
          Len(phash_archive)
             = Cardinality({t \in Threads :
                               /\ ~FailsValidation(threads[t].file[1])
                               /\ Renderable(threads[t].file[1])})

\* C25: the merge never drops a fraud flag: in every report of
\* analyze_against_archive the top-level fraud_detected is true exactly when
\* the digest-layer or the fingerprint-layer sub-result has fraud_detected
\* true, and whenever the digest-layer sub-result is present the top-level
\* fields are those of the digest finding (risk 95, hamming_distance 0,
\* matched_file the archived name).
C25_MergeKeepsFraudFlag ==
    [][\A f \in Files :
         (ArchiveCallStep(f) /\ lastResult'.outcome = "returned") =>
            LET r == lastResult'.value
                sha == r.layers.sha256
                phash == r.layers.phash
            IN  /\ r.fraud_detected <=>
                      \/ sha # NONE /\ sha[1].fraud_detected
                      \/ phash # NONE /\ phash[1].fraud_detected
                /\ sha # NONE =>
                      /\ f.content \in DOMAIN sha256_archive
                      /\ r.fraud_risk_score = 95
                      /\ r.hamming_distance = Some(0)
                      /\ r.matched_file = Some(sha256_archive[f.content])
                      /\ r.classification = "Critical - Exact Byte Duplicate (SHA-256)"
                      /\ r.fraud_detected]_vars

\* a digest hit whose fingerprint finding is a first upload without fraud:
\* the report keeps the digest layer's flag and its archived name
C25_Witness ==
    /\ ArchiveReturned
    /\ lastResult.value.layers.sha256 # NONE
    /\ lastResult.value.layers.phash # NONE
    /\ ~lastResult.value.layers.phash[1].fraud_detected
    /\ lastResult.value.fraud_detected
    /\ lastResult.value.fraud_risk_score = 95
    /\ lastResult.value.matched_file = Some("scan.png")
    /\ lastResult.value.uploaded_file = "claim.pdf"

\* documents f1 and then f2, renderable and of different bytes, were
\* submitted to a fresh engine, and the report of f2 is the last result
SubmittedInTurn(f1, f2) ==
    /\ calls = 2
    /\ f1.content # f2.content
    /\ Renderable(f1) /\ Renderable(f2)
    /\ lastCall = [op |-> ArchiveOp, args |-> <<f2>>]
    /\ Len(phash_archive) = 2
    /\ phash_archive[1].name = f1.name
    /\ phash_archive[1].hash = 1..PictureOf(f1.content)
    /\ DOMAIN sha256_archive = {f1.content, f2.content}
    /\ sha256_archive[f1.content] = f1.name

\* C26: the archive path and the pairwise path agree: for two renderable
\* documents A and B of different bytes, submitting A and then B to a fresh
\* engine gives B a fingerprint-layer sub-result whose hamming_distance,
\* similarity_percent, fraud_risk_score, classification and fraud_detected
\* equal those analyze_files(A, B) returns.
C26_ArchivePathAgreesWithPairwisePath ==
    [][\A f1, f2 \in PairFiles :
         (SubmittedInTurn(f1, f2) /\ PairCallStep(f1, f2)) =>
            /\ lastResult.outcome = "returned"
            /\ lastResult.value.layers.phash # NONE
            /\ lastResult'.outcome = "returned"
            /\ LET finding == lastResult.value.layers.phash[1]
                   pair == lastResult'.value
               IN  /\ finding.hamming_distance = Some(pair.hamming_distance)
                   /\ finding.similarity_percent = pair.similarity_percent
                   /\ finding.fraud_risk_score = pair.fraud_risk_score
                   /\ finding.classification = pair.classification
                   /\ finding.fraud_detected = pair.fraud_detected]_vars

====
